---- MODULE Spec2Model ----
(***************************************************************************)
(* A model of image2excel.py: the scaler (bound_image_to_size), the grid   *)
(* writer (write_img_to_ws), the colour-rule applier (apply_colors), the   *)
(* column namer (get_col_name, iter_col_names) and main's pipeline.        *)
(*                                                                         *)
(* Three specifications share the module:                                  *)
(*   Spec       main(image, output) run step by step on a decoded input;   *)
(*   SpecScale  bound_image_to_size applied to an image and a bound;       *)
(*   SpecCol    get_col_name / iter_col_names applied to a number.         *)
(***************************************************************************)
EXTENDS Integers, Sequences, FiniteSets

VARIABLES
    pc,        \* main: the statement main is about to run
    decoded,   \* main: what cv2.imread decodes the image path to (None or an image)
    output,    \* main: the output argument (None or a path)
    img,       \* main: the local img
    resized,   \* main: the dsize arguments cv2.resize was called with, in order
    wb,        \* main: the workbook (None before Workbook(...))
    ws,        \* main: the worksheet (None before create_sheet)
    r,         \* main: the loop variable r of write_img_to_ws and of apply_colors
    channel,   \* main: the loop variable channel of write_img_to_ws
    end_col,   \* main: apply_colors' local end_col (empty before it is set)
    disk,      \* main: the files wb.save has written
    s_pc,      \* SpecScale: "call" before bound_image_to_size, "ret" / "raised" after
    s_img,     \* SpecScale: the img argument
    s_size,    \* SpecScale: the size argument
    s_out,     \* SpecScale: the returned image (None before the call, or when it raised)
    s_resized,   \* SpecScale: the dsize arguments cv2.resize was called with, in order
    c_pc,      \* SpecCol: "call" before the call, "ret" after
    c_op,      \* SpecCol: the function applied, "get_col_name" or "iter_col_names"
    c_n,       \* SpecCol: the argument n (or n_cols)
    c_src,     \* SpecCol: the column name the argument was read from (empty if drawn directly)
    c_out      \* SpecCol: the result (empty before the call)

mainVars  == << pc, decoded, output, img, resized, wb, ws, r, channel, end_col, disk >>
scaleVars == << s_pc, s_img, s_size, s_out, s_resized >>
colVars   == << c_pc, c_op, c_n, c_src, c_out >>
vars == << mainVars, scaleVars, colVars >>

\* Python's None, where a record (an image, a workbook, a path) may stand.
None == [none |-> TRUE]

Max(a, b) == IF a >= b THEN a ELSE b

(***************************************************************************)
(* Python floats.  size[0] / img.shape[0] is int / int true division: the  *)
(* correctly rounded IEEE 754 binary64 quotient.  img.shape[1] * scale     *)
(* converts the int (exactly) and rounds the product to nearest-even.      *)
(* int(x) truncates.  A positive float is [exp, man]: man is MantBits      *)
(* bits, most significant (always 1) first, and the value is               *)
(* man * 2^(exp - (MantBits - 1)).  The 53-bit significand does not fit    *)
(* TLC's 32-bit integers, so it is kept as a bit sequence and the          *)
(* arithmetic goes limb by limb (LimbBits bits at a time); every           *)
(* intermediate stays below 2^31 for operands below 2^17.                  *)
(***************************************************************************)
MantBits == 53
LimbBits == (MantBits - 1) \div 4
Base == 2 ^ LimbBits

Front(s) == SubSeq(s, 1, Len(s) - 1)
Last(s) == s[Len(s)]

RECURSIVE IntToBits(_)
IntToBits(n) == IF n = 0 THEN << >> ELSE Append(IntToBits(n \div 2), n % 2)

RECURSIVE BitsToInt(_)
BitsToInt(bits) ==
    IF bits = << >> THEN 0 ELSE 2 * BitsToInt(Front(bits)) + Last(bits)

\* The bits of a sequence of limbs, LimbBits each.
FromLimbs(limbs) ==
    [j \in 1..(LimbBits * Len(limbs)) |->
        (limbs[((j - 1) \div LimbBits) + 1]
            \div (2 ^ (LimbBits - 1 - ((j - 1) % LimbBits)))) % 2]

\* The limbs of a bit sequence, padded with leading zeros to whole limbs.
ToLimbs(bits) ==
    LET n == (Len(bits) + LimbBits - 1) \div LimbBits
        pad == LimbBits * n - Len(bits)
        padded == [j \in 1..(LimbBits * n) |-> IF j <= pad THEN 0 ELSE bits[j - pad]]
    IN  [k \in 1..n |->
            BitsToInt(SubSeq(padded, LimbBits * (k - 1) + 1, LimbBits * k))]

\* A bit sequence without its leading zeros.
Strip(bits) ==
    IF \A i \in 1..Len(bits) : bits[i] = 0 THEN << >>
    ELSE LET first == CHOOSE i \in 1..Len(bits) :
                          bits[i] = 1 /\ \A j \in 1..(i - 1) : bits[j] = 0
         IN  SubSeq(bits, first, Len(bits))

RECURSIVE NormUp(_, _, _)
NormUp(num, den, e) ==
    IF 2 * den <= num THEN NormUp(num, 2 * den, e + 1)
    ELSE [num |-> num, den |-> den, exp |-> e]

RECURSIVE NormDown(_, _, _)
NormDown(num, den, e) ==
    IF num < den THEN NormDown(2 * num, den, e - 1)
    ELSE [num |-> num, den |-> den, exp |-> e]

\* num / den scaled by a power of two into [1, 2), and that power.
Normalize(a, b) == IF a >= b THEN NormUp(a, b, 0) ELSE NormDown(a, b, 0)

\* k further quotient limbs of rem / den (rem < den), and the remainder left.
RECURSIVE QuotLimbs(_, _, _, _)
QuotLimbs(rem, den, k, acc) ==
    IF k = 0 THEN [limbs |-> acc, rem |-> rem]
    ELSE QuotLimbs((rem * Base) % den, den, k - 1,
                   Append(acc, (rem * Base) \div den))

\* bits + 1.
Incr(bits) ==
    IF \A i \in 1..Len(bits) : bits[i] = 1
    THEN << 1 >> \o [i \in 1..Len(bits) |-> 0]
    ELSE LET z == CHOOSE i \in 1..Len(bits) :
                      bits[i] = 0 /\ \A j \in (i + 1)..Len(bits) : bits[j] = 1
         IN  [i \in 1..Len(bits) |->
                 IF i < z THEN bits[i] ELSE IF i = z THEN 1 ELSE 0]

\* Round to nearest, ties to even: kept are the MantBits leading bits, guard the
\* next bit, sticky whether anything nonzero follows it.
RoundNearestEven(exp, kept, guard, sticky) ==
    LET up == guard = 1 /\ (sticky \/ Last(kept) = 1)
        inc == Incr(kept)
    IN  IF ~up THEN [exp |-> exp, man |-> kept]
        ELSE IF Len(inc) > MantBits
             THEN [exp |-> exp + 1, man |-> Front(inc)]
             ELSE [exp |-> exp, man |-> inc]

\* a / b for ints a, b >= 1.
FloatDiv(a, b) ==
    LET n == Normalize(a, b)
        q == QuotLimbs(n.num - n.den, n.den, (MantBits - 1) \div LimbBits, << >>)
        guard == IF 2 * q.rem >= n.den THEN 1 ELSE 0
    IN  RoundNearestEven(n.exp, << 1 >> \o FromLimbs(q.limbs), guard,
                         2 * q.rem - guard * n.den # 0)

\* limbs * w + carry, exactly: the top carry (not reduced), then the limbs.
RECURSIVE MulLimbs(_, _, _)
MulLimbs(limbs, w, carry) ==
    IF limbs = << >> THEN << carry >>
    ELSE LET x == w * Last(limbs) + carry
         IN  Append(MulLimbs(Front(limbs), w, x \div Base), x % Base)

\* bits * w, exactly.
MulBits(bits, w) ==
    LET p == MulLimbs(ToLimbs(bits), w, 0)
    IN  Strip(IntToBits(p[1]) \o FromLimbs(SubSeq(p, 2, Len(p))))

\* w * x for an int w >= 1 and a float x.
FloatMulInt(w, x) ==
    LET p == MulBits(x.man, w)
        l == Len(p)
    IN  RoundNearestEven(x.exp + (l - MantBits),
                         SubSeq(p, 1, MantBits),
                         IF l > MantBits THEN p[MantBits + 1] ELSE 0,
                         \E i \in (MantBits + 2)..l : p[i] = 1)

\* int(x): truncation.
FloatToInt(x) ==
    IF x.exp < 0 THEN 0 ELSE BitsToInt(SubSeq(x.man, 1, x.exp + 1))

\* x < y.
FloatLess(x, y) ==
    \/ x.exp < y.exp
    \/ /\ x.exp = y.exp
       /\ \E i \in 1..MantBits :
            /\ x.man[i] < y.man[i]
            /\ \A j \in 1..(i - 1) : x.man[j] = y.man[j]

(***************************************************************************)
(* Images.  An image is its shape (height, width, channels) and its pixel  *)
(* data; the data are drawn from a family of solid and gradient pictures,  *)
(* so that an image of any size is one small value: img[r, k, c] is        *)
(* Pixel(img, r, k, c), a uint8.                                           *)
(***************************************************************************)
Channels == 3

Datas ==
    { [base |-> << 0, 0, 255 >>, dr |-> 0, dk |-> 0],
      [base |-> << 10, 128, 200 >>, dr |-> 7, dk |-> 13] }

Pixel(im, row, col, ch) ==
    (im.data.base[ch + 1] + im.data.dr * row + im.data.dk * col) % 256

Image(h, w, d) == [shape |-> << h, w, Channels >>, data |-> d]

(***************************************************************************)
(* The scaler.                                                             *)
(***************************************************************************)
MAX_SIZE == << 200, 477 >>

\* Fits with strict comparisons: an image exactly as large as the bound is resized.
Fits_strict(im, size) == im.shape[1] < size[1] /\ im.shape[2] < size[2]

\* "Image fits": img.shape[0] <= size[0] and img.shape[1] <= size[1].
Fits(im, size) == im.shape[1] <= size[1] /\ im.shape[2] <= size[2]

\* HeightIsLimiting with the two ratios exchanged.
HeightIsLimiting_exchanged(im, size) ==
    FloatLess(FloatDiv(size[2], Max(im.shape[2], size[2])),
              FloatDiv(size[1], Max(im.shape[1], size[1])))

\* "Height is limiting": size[0] / max(img.shape[0], size[0])
\*                         < size[1] / max(img.shape[1], size[1]).
HeightIsLimiting(im, size) ==
    FloatLess(FloatDiv(size[1], Max(im.shape[1], size[1])),
              FloatDiv(size[2], Max(im.shape[2], size[2])))

\* A dsize argument of cv2.resize: (width, height).
Dsize(w, h) == [width |-> w, height |-> h]

\* TargetDsize giving cv2.resize (height, width) instead of (width, height).
TargetDsize_swapped(im, size) ==
    IF HeightIsLimiting(im, size)
    THEN LET scale == FloatDiv(size[1], im.shape[1])
         IN  Dsize(size[1], FloatToInt(FloatMulInt(im.shape[2], scale)))
    ELSE LET scale == FloatDiv(size[2], im.shape[2])
         IN  Dsize(FloatToInt(FloatMulInt(im.shape[1], scale)), size[2])

\* The dsize (width, height) handed to cv2.resize when the image does not fit.
TargetDsize(im, size) ==
    IF HeightIsLimiting(im, size)
    THEN LET scale == FloatDiv(size[1], im.shape[1])
         IN  Dsize(FloatToInt(FloatMulInt(im.shape[2], scale)), size[1])
    ELSE LET scale == FloatDiv(size[2], im.shape[2])
         IN  Dsize(size[2], FloatToInt(FloatMulInt(im.shape[1], scale)))

\* cv2.resize(img, dsize): the images it may return. The resampled pixels are
\* the interpolation's, any data of the family. An empty dsize (a zero width or
\* height, with no fx, fy given) makes cv2.resize raise cv2.error: no result.
cv2_resize(im, dsize) ==
    IF dsize.width <= 0 \/ dsize.height <= 0 THEN {}
    ELSE { [shape |-> << dsize.height, dsize.width, im.shape[3] >>, data |-> d] :
             d \in Datas }

\* bound_image_to_size(img, size): the images it may return (none: it raised).
bound_image_to_size(im, size) ==
    IF Fits(im, size) THEN { im }
    ELSE cv2_resize(im, TargetDsize(im, size))

(***************************************************************************)
(* SpecScale: bound_image_to_size applied once to an image and a bound.    *)
(* The bounds are every (maxH, maxW) up to MaxBound with every shape up to *)
(* MaxDim, and the program's MAX_SIZE with shapes around it and beyond it. *)
(***************************************************************************)
MaxBound == 3
MaxDim == 8
MaxDelta == 2

BigHeights ==
    { 1, 76, 232, 289, 400, 401 }
        \cup ((MAX_SIZE[1] - MaxDelta)..(MAX_SIZE[1] + MaxDelta))
BigWidths ==
    { 1, 2, 145, 289, 684, 800, 954 }
        \cup ((MAX_SIZE[2] - MaxDelta)..(MAX_SIZE[2] + MaxDelta))

ScaleInputs ==
    { << << mh, mw >>, << h, w >> >> :
        mh \in 1..MaxBound, mw \in 1..MaxBound, h \in 1..MaxDim, w \in 1..MaxDim }
    \cup { << MAX_SIZE, << h, w >> >> : h \in BigHeights, w \in BigWidths }

MainIdle ==
    /\ pc = "idle" /\ decoded = None /\ output = None /\ img = None
    /\ resized = << >> /\ wb = None /\ ws = None /\ r = 0 /\ channel = 0
    /\ end_col = << >> /\ disk = {}

ScaleIdle ==
    /\ s_pc = "idle" /\ s_img = None /\ s_size = << 0, 0 >> /\ s_out = None
    /\ s_resized = << >>

ColIdle ==
    /\ c_pc = "idle" /\ c_op = "none" /\ c_n = 0 /\ c_src = << >> /\ c_out = << >>

ScaleInit ==
    /\ \E in \in ScaleInputs, d \in Datas :
         /\ s_size = in[1]
         /\ s_img = Image(in[2][1], in[2][2], d)
    /\ s_pc = "call"
    /\ s_out = None
    /\ s_resized = << >>
    /\ MainIdle
    /\ ColIdle

\* The call returns: the image itself, or what cv2.resize made of it.
ScaleReturn ==
    /\ s_pc = "call"
    /\ \E out \in bound_image_to_size(s_img, s_size) : s_out' = out
    /\ s_resized' = IF Fits(s_img, s_size) THEN s_resized
                    ELSE Append(s_resized, TargetDsize(s_img, s_size))
    /\ s_pc' = "ret"
    /\ UNCHANGED << s_img, s_size, mainVars, colVars >>

\* The call raises: cv2.resize refused the dsize.
ScaleRaise ==
    /\ s_pc = "call"
    /\ bound_image_to_size(s_img, s_size) = {}
    /\ s_resized' = Append(s_resized, TargetDsize(s_img, s_size))
    /\ s_pc' = "raised"
    /\ UNCHANGED << s_img, s_size, s_out, mainVars, colVars >>

ScaleNext == ScaleReturn \/ ScaleRaise

SpecScale == ScaleInit /\ [][ScaleNext]_vars

(***************************************************************************)
(* The column namer.  A name is the sequence of its letters.               *)
(***************************************************************************)
ascii_uppercase ==
    << "A", "B", "C", "D", "E", "F", "G", "H", "I", "J", "K", "L", "M",
       "N", "O", "P", "Q", "R", "S", "T", "U", "V", "W", "X", "Y", "Z" >>

\* The while loop of get_col_name: col grows to the left while n > 0.
RECURSIVE ColLoop(_, _)
ColLoop(n, col) ==
    IF n > 0
    THEN ColLoop((n - 1) \div 26, << ascii_uppercase[((n - 1) % 26) + 1] >> \o col)
    ELSE col

\* get_col_name as plain base 26, without the "- 1" before each division.
RECURSIVE ColLoop_naive(_, _)
ColLoop_naive(n, col) ==
    IF n > 0
    THEN ColLoop_naive(n \div 26, << ascii_uppercase[(n % 26) + 1] >> \o col)
    ELSE col

get_col_name_naive(n) == ColLoop_naive(n, << >>)

get_col_name(n) == ColLoop(n, << >>)

\* iter_col_names looping over range(n_cols) instead of range(1, n_cols + 1).
iter_col_names_from0(n_cols) == [i \in 1..n_cols |-> get_col_name(i - 1)]

\* iter_col_names(n_cols): what the generator yields, in order:
\* get_col_name(i) for i in range(1, n_cols + 1).
iter_col_names(n_cols) == [i \in 1..n_cols |-> get_col_name(i)]

(***************************************************************************)
(* SpecCol: get_col_name or iter_col_names applied once.  get_col_name's   *)
(* argument is drawn from 1..MaxN, or read off a column name of one to     *)
(* three letters by the usual decoder; iter_col_names' from 0..MaxIterCols *)
(* and from the numbers around the first three-letter name.                *)
(***************************************************************************)
MaxN == 18300
MaxIterCols == 60

ZZ == 26 + 26 * 26
ZZZ == 26 + 26 * 26 + 26 * 26 * 26

LetterIndex(ch) == CHOOSE i \in 1..26 : ascii_uppercase[i] = ch

\* The standard decoder: value = value * 26 + (letter index 1..26), left to right.
RECURSIVE col_number(_)
col_number(name) ==
    IF name = << >> THEN 0
    ELSE col_number(Front(name)) * 26 + LetterIndex(Last(name))

Letters == { ascii_uppercase[i] : i \in 1..26 }
ShortNames == UNION { [1..l -> Letters] : l \in 1..3 }

ColInit ==
    /\ \/ /\ c_op = "get_col_name"
          /\ c_n \in 1..MaxN
          /\ c_src = << >>
       \/ /\ c_op = "get_col_name"
          /\ c_src \in ShortNames
          /\ c_n = col_number(c_src)
       \/ /\ c_op = "iter_col_names"
          /\ c_n \in (0..MaxIterCols) \cup ((ZZ - 1)..(ZZ + 2))
          /\ c_src = << >>
    /\ c_pc = "call"
    /\ c_out = << >>
    /\ MainIdle
    /\ ScaleIdle

GetColName ==
    /\ c_pc = "call"
    /\ c_op = "get_col_name"
    /\ c_out' = get_col_name(c_n)
    /\ c_pc' = "ret"
    /\ UNCHANGED << c_op, c_n, c_src, mainVars, scaleVars >>

IterColNames ==
    /\ c_pc = "call"
    /\ c_op = "iter_col_names"
    /\ c_out' = iter_col_names(c_n)
    /\ c_pc' = "ret"
    /\ UNCHANGED << c_op, c_n, c_src, mainVars, scaleVars >>

ColNext == GetColName \/ IterColNames

SpecCol == ColInit /\ [][ColNext]_vars

(***************************************************************************)
(* The worksheet (openpyxl, write-only) and the functions that fill it.    *)
(***************************************************************************)
ROW_HEIGHT == 5
COL_WIDTH == << 245, 100 >>    \* 2.45
FONT_SIZE == 2

NewWorksheet(title) ==
    [title |-> title,
     row_dimensions |-> << >>,                \* row number -> height
     column_dimensions |-> << >>,             \* the [col, width] set, in order
     rows |-> << >>,                          \* the rows appended, in order
     conditional_formatting |-> << >>]        \* the (range, rule) pairs added, in order

\* The helper cell(val) of write_img_to_ws.
cell(val) ==
    [value |-> val,
     font |-> [name |-> "Calibri", size |-> FONT_SIZE],
     alignment |-> [vertical |-> "center"]]

\* The row taking every channel from the opposite end (RGB for BGR).
RowCells_flipped(im, row, ch) ==
    [k \in 1..im.shape[2] |-> cell(Pixel(im, row, k - 1, im.shape[3] - 1 - ch))]

\* [cell(x) for x in img[r, :, channel]]
RowCells(im, row, ch) ==
    [k \in 1..im.shape[2] |-> cell(Pixel(im, row, k - 1, ch))]

rgb == << "0000FF", "00FF00", "FF0000" >>

\* The rule with the colour list indexed by r % 3 instead of (r - 1) % 3.
ColorScaleRule_shifted(row) ==
    [start_type |-> "num", start_value |-> 0, start_color |-> "000000",
     end_type |-> "num", end_value |-> 255, end_color |-> rgb[(row % 3) + 1]]

\* The ColorScaleRule apply_colors builds for row r.
ColorScaleRule(row) ==
    [start_type |-> "num", start_value |-> 0, start_color |-> "000000",
     end_type |-> "num", end_value |-> 255, end_color |-> rgb[((row - 1) % 3) + 1]]

\* f'A{r}:{end_col}{r}', kept as its parts.
RangeString(row, last_col) == << "A", row, ":", last_col, row >>

(***************************************************************************)
(* Spec: main(image, output), statement by statement.  The image path      *)
(* decodes to None or to an image: every shape up to MaxImgH x MaxImgW,    *)
(* and shapes beyond MAX_SIZE that make the scaler resize.                 *)
(***************************************************************************)
MaxImgH == 2
MaxImgW == 3

LargeShapes == { << 201, 1 >>, << 201, 2 >>, << 1, 478 >>, << 2, 478 >>, << 2, 954 >> }

MainImages ==
    { Image(h, w, d) : h \in 1..MaxImgH, w \in 1..MaxImgW, d \in Datas }
    \cup { Image(sh[1], sh[2], d) : sh \in LargeShapes, d \in Datas }

Path(stem, suffix) == [stem |-> stem, suffix |-> suffix]

Outputs == { None, Path("out", ".xlsx") }

\* Path(image).stem + '.xlsx'
DefaultOutput == Path("image", ".xlsx")

MainInit ==
    /\ pc = "imread"
    /\ decoded \in { None } \cup MainImages
    /\ output \in Outputs
    /\ img = None
    /\ resized = << >>
    /\ wb = None
    /\ ws = None
    /\ r = 0
    /\ channel = 0
    /\ end_col = << >>
    /\ disk = {}
    /\ ScaleIdle
    /\ ColIdle

\* LoadImage without the "if img is None" check.
LoadImage_unchecked ==
    /\ pc = "imread"
    /\ img' = decoded
    /\ pc' = "bound"
    /\ UNCHANGED << decoded, output, resized, wb, ws, r, channel, end_col, disk,
                    scaleVars, colVars >>

\* img = cv2.imread(image); if img is None: raise Exception(...)
LoadImage ==
    /\ pc = "imread"
    /\ img' = decoded
    /\ pc' = IF decoded = None THEN "raised" ELSE "bound"
    /\ UNCHANGED << decoded, output, resized, wb, ws, r, channel, end_col, disk,
                    scaleVars, colVars >>

\* img = bound_image_to_size(img, MAX_SIZE)
BoundImage ==
    /\ pc = "bound"
    /\ resized' = IF Fits(img, MAX_SIZE) THEN resized
                  ELSE Append(resized, TargetDsize(img, MAX_SIZE))
    /\ \/ /\ \E out \in bound_image_to_size(img, MAX_SIZE) : img' = out
          /\ pc' = "workbook"
       \/ /\ bound_image_to_size(img, MAX_SIZE) = {}     \* cv2.error propagates
          /\ pc' = "raised"
          /\ img' = img
    /\ UNCHANGED << decoded, output, wb, ws, r, channel, end_col, disk,
                    scaleVars, colVars >>

\* wb = Workbook(write_only=True); ws = wb.create_sheet(title='Image')
CreateWorkbook ==
    /\ pc = "workbook"
    /\ wb' = [write_only |-> TRUE, sheets |-> << "Image" >>]
    /\ ws' = NewWorksheet("Image")
    /\ pc' = "write_dims"
    /\ UNCHANGED << decoded, output, img, resized, r, channel, end_col, disk,
                    scaleVars, colVars >>

\* write_img_to_ws: the row heights and the column widths.
SetDimensions ==
    /\ pc = "write_dims"
    /\ ws' = [ws EXCEPT
                !.row_dimensions =
                    [i \in 1..(img.shape[1] * img.shape[3]) |-> ROW_HEIGHT],
                !.column_dimensions =
                    LET names == iter_col_names(img.shape[2])
                    IN  [i \in 1..Len(names) |-> [col |-> names[i], width |-> COL_WIDTH]]]
    /\ r' = 0
    /\ channel' = 0
    /\ pc' = "write_rows"
    /\ UNCHANGED << decoded, output, img, resized, wb, end_col, disk,
                    scaleVars, colVars >>

\* write_img_to_ws: one pass of the loops over r and channel, ws.append(...).
AppendRow ==
    /\ pc = "write_rows"
    /\ \/ /\ r < img.shape[1]
          /\ ws' = [ws EXCEPT !.rows = Append(@, RowCells(img, r, channel))]
          /\ IF channel + 1 < img.shape[3]
             THEN channel' = channel + 1 /\ r' = r
             ELSE channel' = 0 /\ r' = r + 1
          /\ pc' = pc
       \/ /\ r >= img.shape[1]
          /\ pc' = "colors"
          /\ UNCHANGED << ws, r, channel >>
    /\ UNCHANGED << decoded, output, img, resized, wb, end_col, disk,
                    scaleVars, colVars >>

\* apply_colors(ws, img.shape[0] * img.shape[2], img.shape[1]): end_col.
BeginColors ==
    /\ pc = "colors"
    /\ end_col' = get_col_name(img.shape[2])
    /\ r' = 1
    /\ pc' = "rules"
    /\ UNCHANGED << decoded, output, img, resized, wb, ws, channel, disk,
                    scaleVars, colVars >>

\* apply_colors: one pass of the loop over r in range(1, n_rows + 1).
AddRule ==
    /\ pc = "rules"
    /\ \/ /\ r <= img.shape[1] * img.shape[3]
          /\ ws' = [ws EXCEPT !.conditional_formatting =
                        Append(@, [range |-> RangeString(r, end_col),
                                   rule |-> ColorScaleRule(r)])]
          /\ r' = r + 1
          /\ pc' = pc
       \/ /\ r > img.shape[1] * img.shape[3]
          /\ pc' = "save"
          /\ UNCHANGED << ws, r >>
    /\ UNCHANGED << decoded, output, img, resized, wb, channel, end_col, disk,
                    scaleVars, colVars >>

\* if output is None: output = Path(image).stem + '.xlsx'; wb.save(output)
Save ==
    /\ pc = "save"
    /\ output' = IF output = None THEN DefaultOutput ELSE output
    /\ disk' = disk \cup { [path |-> output', workbook |-> wb, sheets |-> << ws >>] }
    /\ pc' = "done"
    /\ UNCHANGED << decoded, img, resized, wb, ws, r, channel, end_col,
                    scaleVars, colVars >>

Next ==
    \/ LoadImage
    \/ BoundImage
    \/ CreateWorkbook
    \/ SetDimensions
    \/ AppendRow
    \/ BeginColors
    \/ AddRule
    \/ Save

Spec == MainInit /\ [][Next]_vars

(***************************************************************************)
(* Properties of the scaler (SpecScale).                                   *)
(***************************************************************************)
ScaleCalled == s_pc \in { "ret", "raised" }
InH == s_img.shape[1]
InW == s_img.shape[2]
BoundH == s_size[1]
BoundW == s_size[2]

\* C1: an image with H <= maxH and W <= maxW is returned unchanged (same height,
\* same width, same pixel values) and cv2.resize is not called: no upscaling.
C1_FitsIsIdentity ==
    (ScaleCalled /\ InH <= BoundH /\ InW <= BoundW)
        => (s_pc = "ret" /\ s_out = s_img /\ s_resized = << >>)

C1_Witness ==
    /\ s_pc = "ret" /\ InH = BoundH /\ InW < BoundW
    /\ s_out = s_img /\ s_size = MAX_SIZE

\* C2 (as claimed): whenever the image is resized, the limiting dimension
\* equals its bound, the other is within its bound and equals
\* floor(original * bound_limiting / original_limiting).
C2_ResizedDimsAreFloor ==
    (s_pc = "ret" /\ (InH > BoundH \/ InW > BoundW))
        => LET h == s_out.shape[1]
               w == s_out.shape[2]
           IN  /\ h <= BoundH /\ w <= BoundW
               /\ \/ h = BoundH /\ w = (InW * BoundH) \div InH
                  \/ w = BoundW /\ h = (InH * BoundW) \div InW

\* C3 (as claimed): a 400 x 800 image under the bound (200, 477) is
\* width-limited and comes back 477 wide and floor(400 * 477 / 800) = 238 high.
C3_Scenario400x800 ==
    (ScaleCalled /\ InH = 400 /\ InW = 800 /\ s_size = << 200, 477 >>)
        => /\ s_pc = "ret"
           /\ ~HeightIsLimiting(s_img, s_size)
           /\ s_resized = << Dsize(477, 238) >>
           /\ s_out.shape = << 238, 477, Channels >>

\* C3 (amended): a 400 x 800 image under the bound (200, 477) is
\* height-limited (200/400 < 477/800) and comes back 200 high and
\* floor(800 * 200 / 400) = 400 wide.
C3_Scenario400x800HeightLimited ==
    (ScaleCalled /\ InH = 400 /\ InW = 800 /\ s_size = << 200, 477 >>)
        => /\ s_pc = "ret"
           /\ HeightIsLimiting(s_img, s_size)
           /\ s_resized = << Dsize(400, 200) >>
           /\ s_out.shape = << 200, 400, Channels >>

C3_Witness ==
    /\ s_pc = "ret" /\ InH = 400 /\ InW = 800 /\ s_size = MAX_SIZE
    /\ s_out.shape[2] = (800 * 200) \div 400

\* The direct formulation of the branch: H / maxH > W / maxW.
DirectHeightIsLimiting(im, size) ==
    FloatLess(FloatDiv(im.shape[2], size[2]), FloatDiv(im.shape[1], size[1]))

DirectDsize(im, size) ==
    IF DirectHeightIsLimiting(im, size)
    THEN Dsize(FloatToInt(FloatMulInt(im.shape[2], FloatDiv(size[1], im.shape[1]))),
               size[1])
    ELSE Dsize(size[2],
               FloatToInt(FloatMulInt(im.shape[1], FloatDiv(size[2], im.shape[2]))))

\* C9: for an image larger than the bound in both dimensions, the code's
\* comparison maxH/max(H,maxH) < maxW/max(W,maxW) takes the branch the direct
\* comparison H/maxH > W/maxW takes (ties included: width-limiting), and the
\* dsize requested is the one the direct formulation requests.
C9_BranchMatchesDirect ==
    (ScaleCalled /\ InH > BoundH /\ InW > BoundW)
        => /\ HeightIsLimiting(s_img, s_size) <=> DirectHeightIsLimiting(s_img, s_size)
           /\ s_resized = << DirectDsize(s_img, s_size) >>

\* A tie: H / maxH = W / maxW, both above 1.
C9_Witness ==
    /\ s_pc = "ret" /\ InH > BoundH /\ InW > BoundW
    /\ InH * BoundW = InW * BoundH
    /\ ~HeightIsLimiting(s_img, s_size)

(***************************************************************************)
(* Properties of the column namer (SpecCol).                               *)
(***************************************************************************)
\* Spreadsheet column order: shorter names first, equal lengths by letters.
ColLess(a, b) ==
    \/ Len(a) < Len(b)
    \/ /\ Len(a) = Len(b)
       /\ \E i \in 1..Len(a) :
            /\ LetterIndex(a[i]) < LetterIndex(b[i])
            /\ \A j \in 1..(i - 1) : a[j] = b[j]

\* C6: for 1 <= n <= 18278 (ZZZ), get_col_name(n) is a non-empty string over
\* A..Z of at most three letters that the standard decoder takes back to n
\* (so get_col_name is injective), and every name of one to three letters is
\* the name of its own number, which lies in 1..18278 (so the image is A..ZZZ).
\* It names 1 "A", 26 "Z", 27 "AA", 702 "ZZ" and 703 "AAA".
C6_ColNameBijective ==
    (c_op = "get_col_name" /\ c_pc = "ret")
        => /\ c_n \in 1..ZZZ =>
                /\ Len(c_out) \in 1..3
                /\ \A i \in 1..Len(c_out) : c_out[i] \in Letters
                /\ col_number(c_out) = c_n
           /\ c_src # << >> => (c_n \in 1..ZZZ /\ c_out = c_src)
           /\ c_n = 1 => c_out = << "A" >>
           /\ c_n = 26 => c_out = << "Z" >>
           /\ c_n = 27 => c_out = << "A", "A" >>
           /\ c_n = 702 => c_out = << "Z", "Z" >>
           /\ c_n = 703 => c_out = << "A", "A", "A" >>
           /\ ZZZ = 18278

C6_Witness ==
    /\ c_op = "get_col_name" /\ c_pc = "ret"
    /\ c_n = 18278 /\ c_src = << "Z", "Z", "Z" >> /\ c_out = c_src

\* C7: iter_col_names(n) yields exactly n names, the i-th being
\* get_col_name(i), strictly ascending in spreadsheet column order.
C7_IterColNames ==
    (c_op = "iter_col_names" /\ c_pc = "ret")
        => /\ Len(c_out) = c_n
           /\ \A i \in 1..Len(c_out) : c_out[i] = get_col_name(i)
           /\ \A i \in 1..(Len(c_out) - 1) : ColLess(c_out[i], c_out[i + 1])

C7_Witness ==
    /\ c_op = "iter_col_names" /\ c_pc = "ret"
    /\ c_n = ZZ + 1 /\ Len(c_out) = ZZ + 1
    /\ c_out[ZZ] = << "Z", "Z" >> /\ c_out[ZZ + 1] = << "A", "A", "A" >>

(***************************************************************************)
(* Properties of main (Spec).                                              *)
(***************************************************************************)
Written == pc \in { "colors", "rules", "save", "done" }
Coloured == pc \in { "save", "done" }

\* C4: the worksheet's rows are appended once each, in order: at any moment the
\* rows are the first ones of the grid, worksheet row 3*r + c (0-indexed) holding
\* img[r, k, c] in its cell k, W cells a row; after write_img_to_ws there are
\* exactly 3*H of them.
C4_GridHoldsImage ==
    ws # None =>
        /\ \A i \in 1..Len(ws.rows) :
             /\ Len(ws.rows[i]) = img.shape[2]
             /\ \A k \in 1..img.shape[2] :
                  ws.rows[i][k].value = Pixel(img, (i - 1) \div 3, k - 1, (i - 1) % 3)
        /\ pc = "write_rows" => Len(ws.rows) = 3 * r + channel
        /\ Written => Len(ws.rows) = 3 * img.shape[1]

C4_Witness ==
    /\ pc = "colors" /\ img.shape = << 2, 3, 3 >> /\ img.data.dk # 0
    /\ Len(ws.rows) = 6
    /\ ws.rows[5][3].value = Pixel(img, 1, 2, 1)
    /\ ws.rows[5][3].value # ws.rows[4][3].value

Black == "000000"
Blue == "0000FF"
Green == "00FF00"
Red == "FF0000"

C8_DecodeFailureStopsMain ==
    decoded = None =>
        /\ pc \in { "imread", "raised" }
        /\ resized = << >>
        /\ wb = None
        /\ ws = None
        /\ disk = {}

C8_Witness == pc = "raised" /\ decoded = None /\ img = None /\ disk = {}

\* C10 (as claimed): with H, W >= 1 and the bound MAX_SIZE, the dimensions asked
\* of cv2.resize are both >= 1, and the grid written afterwards has at least 3
\* rows and at least 1 column.
C10_TargetDimsPositive ==
    /\ \A i \in 1..Len(resized) : resized[i].width >= 1 /\ resized[i].height >= 1
    /\ Written => (Len(ws.rows) >= 3 /\ \A i \in 1..Len(ws.rows) : Len(ws.rows[i]) >= 1)

====
